---- MODULE Spec2Model ----
(***************************************************************************)
(* Model of uploadfile.py, the Streamlit dashboard script of the Ramadan   *)
(* campaign repository.  One execution of the script is one action: it     *)
(* reads the file held by the uploader widget, cleans it (lines 19-61),    *)
(* and renders the five charts when df is not None (lines 64-174).         *)
(*                                                                         *)
(* Text is modelled as sequences of one-character strings, so that header  *)
(* normalisation, str.capitalize, numeric coercion and date parsing are    *)
(* computed character by character.  A cell that pandas holds as NaN is    *)
(* the empty sequence.                                                     *)
(***************************************************************************)
EXTENDS Integers, Sequences, FiniteSets, TLC

VARIABLES
  uploaded_file,   \* what st.file_uploader returns: None or the selected file
  df,              \* the data frame at line 63: None or the cleaned frame
  messages,        \* the status messages of the last execution
  path,            \* the pipeline stages the last execution went through
  charts,          \* the data of the five charts drawn, None when none is drawn
  first_attempt,   \* history: the first upload of the session and its outcome
  others_since     \* history: an execution on another input followed it

vars == <<uploaded_file, df, messages, path, charts, first_attempt, others_since>>

(***************************************************************************)
(* Option values: Python's None and a present value.                       *)
(***************************************************************************)
None == <<>>
Some(x) == <<x>>
Get(o) == o[1]

\* The element of a one-element set.  Only({F(v) : v \in {e}}) computes e
\* once and names its value v, as an assignment to a local variable does.
Only(S) == CHOOSE x \in S : TRUE

\* A list comprehension [i \in 1..n |-> e], computed element by element
\* when it is built (a Python list, not a generator).
List(f) == f \o <<>>

(***************************************************************************)
(* Characters and strings.                                                 *)
(***************************************************************************)
UPPER == <<"A","B","C","D","E","F","G","H","I","J","K","L","M",
           "N","O","P","Q","R","S","T","U","V","W","X","Y","Z">>
LOWER == <<"a","b","c","d","e","f","g","h","i","j","k","l","m",
           "n","o","p","q","r","s","t","u","v","w","x","y","z">>
DIGITS == <<"0","1","2","3","4","5","6","7","8","9">>
WHITESPACE == {" ", "\t"}

\* Code-point order of the characters the model uses (ASCII).
ALPHABET == <<"\t", " ", "-", "/">> \o DIGITS \o UPPER \o <<"_">> \o LOWER

IndexOf(seq, c) == IF \E i \in DOMAIN seq : seq[i] = c
                   THEN CHOOSE i \in DOMAIN seq : seq[i] = c
                   ELSE 0

CHARS == {ALPHABET[i] : i \in DOMAIN ALPHABET}
CodePoint == [c \in CHARS |-> IndexOf(ALPHABET, c)]
LowerOf == [c \in CHARS |-> IF IndexOf(UPPER, c) # 0 THEN LOWER[IndexOf(UPPER, c)] ELSE c]
UpperOf == [c \in CHARS |-> IF IndexOf(LOWER, c) # 0 THEN UPPER[IndexOf(LOWER, c)] ELSE c]

LowerChar(c) == LowerOf[c]
UpperChar(c) == UpperOf[c]

\* str.lower()
StrLower(s) == List([i \in DOMAIN s |-> LowerChar(s[i])])
\* str.upper(), used to build header variants
StrUpper(s) == List([i \in DOMAIN s |-> UpperChar(s[i])])

\* str.strip(): drop leading and trailing whitespace
RECURSIVE StrLStrip(_)
StrLStrip(s) == IF s # <<>> /\ s[1] \in WHITESPACE THEN StrLStrip(Tail(s)) ELSE s
RECURSIVE StrRStrip(_)
StrRStrip(s) ==
  IF s # <<>> /\ s[Len(s)] \in WHITESPACE THEN StrRStrip(SubSeq(s, 1, Len(s) - 1)) ELSE s
StrStrip(s) == StrRStrip(StrLStrip(s))

\* str.replace(' ', '_')
StrReplaceSpace(s) == List([i \in DOMAIN s |-> IF s[i] = " " THEN "_" ELSE s[i]])

\* str.capitalize(): first character upper-cased, the rest lower-cased
StrCapitalize(s) ==
  List([i \in DOMAIN s |-> IF i = 1 THEN UpperChar(s[i]) ELSE LowerChar(s[i])])

\* Python's < on str: lexicographic by code point
RECURSIVE StrLess(_, _)
StrLess(a, b) ==
  IF a = <<>> THEN b # <<>>
  ELSE IF b = <<>> THEN FALSE
  ELSE IF a[1] = b[1] THEN StrLess(Tail(a), Tail(b))
  ELSE CodePoint[a[1]] < CodePoint[b[1]]

(***************************************************************************)
(* Column names.                                                           *)
(***************************************************************************)
COL_DATE        == <<"d","a","t","e">>
COL_PLATFORM    == <<"p","l","a","t","f","o","r","m">>
COL_SENTIMENT   == <<"s","e","n","t","i","m","e","n","t">>
COL_LOCATION    == <<"l","o","c","a","t","i","o","n">>
COL_ENGAGEMENTS == <<"e","n","g","a","g","e","m","e","n","t","s">>
COL_MEDIA_TYPE  == <<"m","e","d","i","a","_","t","y","p","e">>

required_columns ==
  <<COL_DATE, COL_PLATFORM, COL_SENTIMENT, COL_LOCATION, COL_ENGAGEMENTS, COL_MEDIA_TYPE>>

\* Variant: the header is lower-cased and underscored but not stripped.
NormalizeName_NoStrip(s) == StrReplaceSpace(StrLower(s))

\* df.columns.str.strip().str.lower().str.replace(' ', '_')
NormalizeName(s) == StrReplaceSpace(StrLower(StrStrip(s)))
NormalizeColumns(columns) == List([i \in DOMAIN columns |-> NormalizeName(columns[i])])

\* col in df.columns
HasColumn(columns, col) == \E i \in DOMAIN columns : columns[i] = col

\* all(col in df.columns for col in required_columns)
SchemaOk(columns) == \A k \in DOMAIN required_columns : HasColumn(columns, required_columns[k])

\* Variant: the message names only the required columns that are absent.
SchemaErrorColumns_OnlyMissing(columns) ==
  SelectSeq(List([k \in DOMAIN required_columns |-> StrCapitalize(required_columns[k])]),
            LAMBDA name : ~HasColumn(columns, StrLower(name)))

\* ', '.join(col.capitalize() for col in required_columns): the names the
\* schema error message lists
SchemaErrorColumns(columns) ==
  List([k \in DOMAIN required_columns |-> StrCapitalize(required_columns[k])])

(***************************************************************************)
(* pd.read_csv (line 21).  The uploaded file is a record                   *)
(*   [kind, header, rows]                                                 *)
(* kind "empty": no columns to parse (zero bytes), pandas raises           *)
(* EmptyDataError; kind "malformed": the tokenizer raises ParserError;     *)
(* kind "undecodable": any other exception (bytes that are not UTF-8);     *)
(* kind "table": a header line and zero or more data rows, every row with  *)
(* one field per header column.                                            *)
(***************************************************************************)
\* Some of pandas' default na_values: fields read as NaN
NA_VALUES == { <<>>, <<"N","/","A">>, <<"N","A">>, <<"N","a","N">>, <<"n","u","l","l">> }

NaN == <<>>

ReadCsvCell(cell) == IF cell \in NA_VALUES THEN NaN ELSE cell

ReadCsv(file) ==
  IF file.kind = "empty" THEN [raised |-> "EmptyDataError", columns |-> <<>>, rows |-> <<>>]
  ELSE IF file.kind = "malformed" THEN [raised |-> "ParserError", columns |-> <<>>, rows |-> <<>>]
  ELSE IF file.kind = "undecodable" THEN [raised |-> "Exception", columns |-> <<>>, rows |-> <<>>]
  ELSE [raised |-> "",
        columns |-> file.header,
        rows |-> List([r \in DOMAIN file.rows |->
                    List([c \in DOMAIN file.rows[r] |-> ReadCsvCell(file.rows[r][c])])])]

(***************************************************************************)
(* Column access.  df[col] is a Series when one column carries the name    *)
(* and a DataFrame when several do (two headers that differ before         *)
(* normalisation and agree after it).                                      *)
(***************************************************************************)
ColumnIndexes(columns, col) == {i \in DOMAIN columns : columns[i] = col}
ColumnIndex(columns, col) == CHOOSE i \in ColumnIndexes(columns, col) : TRUE
IsSeries(columns, col) == Cardinality(ColumnIndexes(columns, col)) = 1
Column(columns, rows, col) ==
  Only({List([r \in DOMAIN rows |-> rows[r][i]]) : i \in {ColumnIndex(columns, col)}})

(***************************************************************************)
(* pd.to_datetime (line 36) on text: ISO dates YYYY-MM-DD convert, NaN     *)
(* becomes NaT, any other text raises.  A converted date is the number     *)
(* YYYYMMDD, which orders as the calendar does.                            *)
(***************************************************************************)
NaT == -1

DigitOf == [c \in {DIGITS[i] : i \in DOMAIN DIGITS} |-> IndexOf(DIGITS, c) - 1]
IsDigit(c) == c \in DOMAIN DigitOf
DigitValue(c) == DigitOf[c]

RECURSIVE DigitsValue(_)
DigitsValue(s) ==
  IF s = <<>> THEN 0 ELSE 10 * DigitsValue(SubSeq(s, 1, Len(s) - 1)) + DigitValue(s[Len(s)])

IsLeap(y) == y % 4 = 0 /\ (y % 100 # 0 \/ y % 400 = 0)
DaysInMonth(y, m) ==
  IF m = 2 THEN (IF IsLeap(y) THEN 29 ELSE 28)
  ELSE IF m \in {4, 6, 9, 11} THEN 30 ELSE 31

IsDateText(s) ==
  /\ Len(s) = 10
  /\ s[5] = "-" /\ s[8] = "-"
  /\ \A i \in {1, 2, 3, 4, 6, 7, 9, 10} : IsDigit(s[i])
  /\ LET y == DigitsValue(SubSeq(s, 1, 4))
         m == DigitsValue(SubSeq(s, 6, 7))
         d == DigitsValue(SubSeq(s, 9, 10))
     IN y >= 1 /\ m \in 1..12 /\ d \in 1..DaysInMonth(y, m)

DateValue(s) ==
  10000 * DigitsValue(SubSeq(s, 1, 4)) + 100 * DigitsValue(SubSeq(s, 6, 7))
    + DigitsValue(SubSeq(s, 9, 10))

\* one value: does the conversion raise, and what it yields
DateConvertible(cell) == cell = NaN \/ IsDateText(cell)
ToDatetimeCell(cell) == IF cell = NaN THEN NaT ELSE DateValue(cell)

\* pd.to_datetime(df['date']): raises when df['date'] is a DataFrame
\* (no year/month/day columns to assemble) or a value does not convert
ToDatetimeRaises(columns, rows) ==
  \/ ~IsSeries(columns, COL_DATE)
  \/ \E values \in {Column(columns, rows, COL_DATE)} :
        \E r \in DOMAIN values : ~DateConvertible(values[r])

ToDatetime(columns, rows) ==
  Only({List([r \in DOMAIN values |-> ToDatetimeCell(values[r])]) :
          values \in {Column(columns, rows, COL_DATE)}})

(***************************************************************************)
(* pd.to_numeric(df['engagements'], errors='coerce').fillna(0) (line 43).  *)
(* Integer text converts to its value; any other text, and NaN, is         *)
(* coerced to NaN (None here) and then filled with 0.                      *)
(***************************************************************************)
\* Variant: a leading minus sign is not accepted as part of a number.
IsIntText_NoSign(s) == s # <<>> /\ \A i \in DOMAIN s : IsDigit(s[i])

IsIntText(s) ==
  /\ s # <<>>
  /\ LET body == IF s[1] = "-" THEN Tail(s) ELSE s
     IN body # <<>> /\ \A i \in DOMAIN body : IsDigit(body[i])

IntValue(s) == IF s[1] = "-" THEN 0 - DigitsValue(Tail(s)) ELSE DigitsValue(s)

ToNumericCell(cell) == IF IsIntText(cell) THEN Some(IntValue(cell)) ELSE None
FillNa(v, fill) == IF v = None THEN fill ELSE Get(v)

\* pd.to_numeric raises TypeError when df['engagements'] is a DataFrame
ToNumericRaises(columns) == ~IsSeries(columns, COL_ENGAGEMENTS)

RepairEngagements(columns, rows) ==
  Only({List([r \in DOMAIN values |-> FillNa(ToNumericCell(values[r]), 0)]) :
          values \in {Column(columns, rows, COL_ENGAGEMENTS)}})

(***************************************************************************)
(* The cleaning block, lines 19-61.  The result is the value df holds at   *)
(* line 63, the messages shown (st.success, st.error) and the stages the   *)
(* run went through.  df is [columns, rows, date, engagements]: the        *)
(* normalised header, the cells as read, and the two converted columns.    *)
(***************************************************************************)
Msg(level, id, columns) == [level |-> level, id |-> id, columns |-> columns]

Result(d, m, p) == [df |-> d, messages |-> m, path |-> p]

\* Variant: line 39 (df = None after a failed date conversion) is missing.
CleanTable_KeepsFrame(columns, rows) ==
  LET uploaded == Msg("success", "uploaded", <<>>) IN
  IF ~SchemaOk(columns) THEN
    Result(None, <<uploaded, Msg("error", "missing_columns", SchemaErrorColumns(columns))>>,
           <<"NoUpload", "Parsing", "Normalizing", "Validating", "SchemaError">>)
  ELSE IF ToDatetimeRaises(columns, rows) THEN
    Result(Some([columns |-> columns, rows |-> rows,
                 date |-> List([r \in DOMAIN rows |-> NaT]),
                 engagements |-> RepairEngagements(columns, rows)]),
           <<uploaded, Msg("error", "date_not_converted", <<>>)>>,
           <<"NoUpload", "Parsing", "Normalizing", "Validating", "CoercingDate", "DateError">>)
  ELSE IF ToNumericRaises(columns) THEN
    Result(None, <<uploaded, Msg("error", "unexpected", <<>>)>>,
           <<"NoUpload", "Parsing", "Normalizing", "Validating", "CoercingDate", "Repairing",
             "UnexpectedError">>)
  ELSE
    Result(Some([columns |-> columns, rows |-> rows,
                 date |-> ToDatetime(columns, rows),
                 engagements |-> RepairEngagements(columns, rows)]),
           <<uploaded, Msg("success", "cleaned", <<>>)>>,
           <<"NoUpload", "Parsing", "Normalizing", "Validating", "CoercingDate", "Repairing",
             "Ready">>)

\* Variant: the date column is converted before the required columns are checked.
CleanTable_DateFirst(columns, rows) ==
  LET uploaded == Msg("success", "uploaded", <<>>) IN
  IF HasColumn(columns, COL_DATE) /\ ToDatetimeRaises(columns, rows) THEN
    Result(None, <<uploaded, Msg("error", "date_not_converted", <<>>)>>,
           <<"NoUpload", "Parsing", "Normalizing", "CoercingDate", "DateError">>)
  ELSE IF ~SchemaOk(columns) THEN
    Result(None, <<uploaded, Msg("error", "missing_columns", SchemaErrorColumns(columns))>>,
           <<"NoUpload", "Parsing", "Normalizing", "CoercingDate", "Validating", "SchemaError">>)
  ELSE IF ToNumericRaises(columns) THEN
    Result(None, <<uploaded, Msg("error", "unexpected", <<>>)>>,
           <<"NoUpload", "Parsing", "Normalizing", "CoercingDate", "Validating", "Repairing",
             "UnexpectedError">>)
  ELSE
    Result(Some([columns |-> columns, rows |-> rows,
                 date |-> ToDatetime(columns, rows),
                 engagements |-> RepairEngagements(columns, rows)]),
           <<uploaded, Msg("success", "cleaned", <<>>)>>,
           <<"NoUpload", "Parsing", "Normalizing", "CoercingDate", "Validating", "Repairing",
             "Ready">>)

\* lines 26-51: the table was read
CleanTable(columns, rows) ==
  LET uploaded == Msg("success", "uploaded", <<>>) IN
  IF ~SchemaOk(columns) THEN
    Result(None, <<uploaded, Msg("error", "missing_columns", SchemaErrorColumns(columns))>>,
           <<"NoUpload", "Parsing", "Normalizing", "Validating", "SchemaError">>)
  ELSE IF ToDatetimeRaises(columns, rows) THEN
    Result(None, <<uploaded, Msg("error", "date_not_converted", <<>>)>>,
           <<"NoUpload", "Parsing", "Normalizing", "Validating", "CoercingDate", "DateError">>)
  ELSE IF ToNumericRaises(columns) THEN
    Result(None, <<uploaded, Msg("error", "unexpected", <<>>)>>,
           <<"NoUpload", "Parsing", "Normalizing", "Validating", "CoercingDate", "Repairing",
             "UnexpectedError">>)
  ELSE
    Result(Some([columns |-> columns, rows |-> rows,
                 date |-> ToDatetime(columns, rows),
                 engagements |-> RepairEngagements(columns, rows)]),
           <<uploaded, Msg("success", "cleaned", <<>>)>>,
           <<"NoUpload", "Parsing", "Normalizing", "Validating", "CoercingDate", "Repairing",
             "Ready">>)

\* lines 20-61: read_csv and the three except clauses
CleanRead(read) ==
  IF read.raised = "EmptyDataError" THEN
    Result(None, <<Msg("error", "empty_file", <<>>)>>,
           <<"NoUpload", "Parsing", "EmptyInputError">>)
  ELSE IF read.raised = "ParserError" THEN
    Result(None, <<Msg("error", "parse_failed", <<>>)>>,
           <<"NoUpload", "Parsing", "MalformedTableError">>)
  ELSE IF read.raised # "" THEN
    Result(None, <<Msg("error", "unexpected", <<>>)>>,
           <<"NoUpload", "Parsing", "UnexpectedError">>)
  ELSE Only({CleanTable(columns, read.rows) : columns \in {NormalizeColumns(read.columns)}})

Clean(file) == Only({CleanRead(read) : read \in {ReadCsv(file)}})

(***************************************************************************)
(* The five aggregates, lines 76-158.  Every aggregate is a sequence of    *)
(* [key, value] entries in the order of the frame the chart is drawn from. *)
(***************************************************************************)
Entry(k, v) == [key |-> k, value |-> v]

Min2(a, b) == IF a < b THEN a ELSE b

RECURSIVE SumOver(_, _)
SumOver(values, idx) ==
  IF idx = {} THEN 0
  ELSE LET i == CHOOSE i \in idx : TRUE IN values[i] + SumOver(values, idx \ {i})

\* the rows of a group
RowsOf(keys, k) == {r \in DOMAIN keys : keys[r] = k}

\* the distinct keys of a column; groupby and value_counts drop NaN and NaT
KeySet(keys, missing) == {keys[r] : r \in DOMAIN keys} \ {missing}

\* groupby sorts the groups by key
TextKeysSorted(S) ==
  List([i \in 1..Cardinality(S) |->
          CHOOSE k \in S : Cardinality({j \in S : StrLess(j, k)}) = i - 1])
\* Variant: the dates come out latest first.
DateKeysSorted_Descending(S) ==
  List([i \in 1..Cardinality(S) |-> CHOOSE k \in S : Cardinality({j \in S : j > k}) = i - 1])

DateKeysSorted(S) ==
  List([i \in 1..Cardinality(S) |-> CHOOSE k \in S : Cardinality({j \in S : j < k}) = i - 1])

\* value_counts meets the keys in order of first appearance
FirstRow(keys, k) == CHOOSE r \in RowsOf(keys, k) : \A q \in RowsOf(keys, k) : r <= q
KeysByAppearance(keys, S) ==
  List([i \in 1..Cardinality(S) |->
          CHOOSE k \in S :
            Cardinality({j \in S : FirstRow(keys, j) < FirstRow(keys, k)}) = i - 1])

\* sort_values(by=..., ascending=False): descending by value, equal values
\* keep their order
SortDescending(entries) ==
  LET before(j, i) == \/ entries[j].value > entries[i].value
                      \/ entries[j].value = entries[i].value /\ j < i
  IN List([p \in DOMAIN entries |->
             entries[CHOOSE i \in DOMAIN entries :
                       Cardinality({j \in DOMAIN entries : before(j, i)}) = p - 1]])

\* head(n)
Head_(entries, n) == SubSeq(entries, 1, Min2(n, Len(entries)))

CountEntries(keys, order) ==
  List([i \in DOMAIN order |-> Entry(order[i], Cardinality(RowsOf(keys, order[i])))])
SumEntries(keys, order, values) ==
  List([i \in DOMAIN order |-> Entry(order[i], SumOver(values, RowsOf(keys, order[i])))])

\* Series.value_counts().reset_index()
ValueCountsOf(keys) ==
  Only({SortDescending(counts) :
          counts \in {CountEntries(keys, order) :
                        order \in {KeysByAppearance(keys, KeySet(keys, NaN))}}})
ValueCounts(d, col) ==
  Only({ValueCountsOf(keys) : keys \in {Column(d.columns, d.rows, col)}})

\* df.groupby(col)['engagements'].sum().reset_index()
GroupBySumOf(keys, values) ==
  Only({SumEntries(keys, order, values) : order \in {TextKeysSorted(KeySet(keys, NaN))}})
GroupBySum(d, col) ==
  Only({GroupBySumOf(keys, d.engagements) : keys \in {Column(d.columns, d.rows, col)}})

\* df.groupby('date')['engagements'].sum().reset_index()
GroupByDateSum(d) ==
  Only({SumEntries(d.date, order, d.engagements) :
          order \in {DateKeysSorted(KeySet(d.date, NaT))}})

TOP_N == 5

\* Variant: head(5) is taken before the sort.
top_5_locations_HeadFirst(d) ==
  Only({SortDescending(Head_(g, TOP_N)) : g \in {GroupBySum(d, COL_LOCATION)}})

sentiment_counts(d)      == ValueCounts(d, COL_SENTIMENT)
platform_engagements(d)  == Only({SortDescending(g) : g \in {GroupBySum(d, COL_PLATFORM)}})
engagements_over_time(d) == GroupByDateSum(d)
media_type_counts(d)     == ValueCounts(d, COL_MEDIA_TYPE)
location_engagements(d)  == GroupBySum(d, COL_LOCATION)
top_5_locations(d)       == Only({Head_(SortDescending(g), TOP_N) : g \in {location_engagements(d)}})

Charts(d) ==
  [sentiment_counts      |-> sentiment_counts(d),
   platform_engagements  |-> platform_engagements(d),
   engagements_over_time |-> engagements_over_time(d),
   media_type_counts     |-> media_type_counts(d),
   top_5_locations       |-> top_5_locations(d)]

(***************************************************************************)
(* One execution of the script with the uploader holding `file` (None when *)
(* no file is selected): lines 15-174.                                     *)
(***************************************************************************)
\* Variant: df and the charts of the previous execution survive a failed
\* upload (df is not reset at line 17).
Script_KeepsPrevious(file) ==
  \E res \in {IF file = None THEN Result(None, <<>>, <<"NoUpload">>) ELSE Clean(Get(file))} :
     /\ path' = res.path
     /\ IF res.df # None
        THEN /\ df' = res.df
             /\ \E d \in {Get(res.df)} : charts' = Some(Charts(d))
             /\ messages' = res.messages
        ELSE /\ df' = df
             /\ charts' = charts
             /\ messages' = Append(res.messages, Msg("info", "please_upload", <<>>))

Script(file) ==
  \E res \in {IF file = None THEN Result(None, <<>>, <<"NoUpload">>) ELSE Clean(Get(file))} :
     /\ df' = res.df
     /\ path' = res.path
     /\ IF res.df # None
        THEN /\ \E d \in {Get(res.df)} : charts' = Some(Charts(d))
             /\ messages' = res.messages
        ELSE /\ charts' = None
             /\ messages' = Append(res.messages, Msg("info", "please_upload", <<>>))

(***************************************************************************)
(* Actions.  Streamlit executes the script once per page load and once per *)
(* change of the uploader widget.  Observe keeps the two history           *)
(* variables; the script does not read them.                               *)
(***************************************************************************)
Observe(file) ==
  /\ first_attempt' =
       IF first_attempt = None /\ file # None
       THEN Some([file |-> Get(file), df |-> df', charts |-> charts',
                  path |-> path', messages |-> messages'])
       ELSE first_attempt
  /\ others_since' =
       IF first_attempt # None /\ file # Some(Get(first_attempt).file)
       THEN TRUE ELSE others_since

\* the user selects a file: the widget holds it and the script runs
Upload(f) ==
  /\ uploaded_file' = Some(f)
  /\ Script(Some(f))
  /\ Observe(Some(f))

\* the user clears the uploader: the script runs with no file
Remove ==
  /\ uploaded_file # None
  /\ uploaded_file' = None
  /\ Script(None)
  /\ Observe(None)

\* the script runs with what the widget holds
Rerun ==
  /\ uploaded_file' = uploaded_file
  /\ Script(uploaded_file)
  /\ Observe(uploaded_file)

(***************************************************************************)
(* Uploaded files.                                                         *)
(***************************************************************************)
MaxMainRows == 2
MaxRows == 2
MaxPad == 1
MaxTopRows == 7

D1  == <<"2","0","2","4","-","0","3","-","1","1">>
D2  == <<"2","0","2","4","-","0","3","-","1","2">>
NOT_A_DATE == <<"n","o","t","-","a","-","d","a","t","e">>
N_A == <<"N","/","A">>
IG  == <<"I","G">>
TW  == <<"X">>
POSITIVE == <<"p","o","s">>
VIDEO == <<"v","i","d","e","o">>
NOTE  == <<"n","o","t","e">>

Location(i) == <<UPPER[i]>>

\* a data row by column key: 1..6 are the required columns in the order of
\* required_columns, 7 is a column the dashboard does not use
Row(date, platform, location, engagements) ==
  <<date, platform, POSITIVE, location, engagements, VIDEO, NOTE>>

\* header variants: letter case, spaces for underscores, padding
Pad(n, c) == [i \in 1..n |-> c]
Styled(name, st) ==
  LET cased  == IF st.case = "upper" THEN StrUpper(name)
                ELSE IF st.case = "capitalize" THEN StrCapitalize(name) ELSE name
      spaced == IF st.spaces
                THEN [i \in DOMAIN cased |-> IF cased[i] = "_" THEN " " ELSE cased[i]]
                ELSE cased
  IN Pad(st.lpad, " ") \o spaced \o Pad(st.rpad, "\t")

Styles(pad) == [case : {"lower", "upper", "capitalize"}, spaces : BOOLEAN,
                lpad : 0..pad, rpad : 0..pad]

\* "Date", "Platform", "Sentiment", "Location", "Engagements", "Media type"
StdStyle == [case |-> "capitalize", spaces |-> TRUE, lpad |-> 0, rpad |-> 0]
StdNames == [k \in 1..6 |-> Styled(required_columns[k], StdStyle)]
StdKeys  == <<1, 2, 3, 4, 5, 6>>

TableFile(names, keys, lrows) ==
  [kind |-> "table", header |-> names,
   rows |-> List([r \in DOMAIN lrows |-> List([i \in DOMAIN keys |-> lrows[r][keys[i]]])])]

OtherFile(kind) == [kind |-> kind, header |-> <<>>, rows |-> <<>>]

SeqsUpTo(n, S) == UNION {[1..k -> S] : k \in 0..n}

\* the keys kept, in order
RECURSIVE KeysIn(_, _)
KeysIn(present, k) ==
  IF k > 6 THEN <<>>
  ELSE (IF k \in present THEN <<k>> ELSE <<>>) \o KeysIn(present, k + 1)

OneRow == <<Row(D1, IG, Location(1), <<"5">>)>>
BadDateRow == <<Row(NOT_A_DATE, IG, Location(1), <<"5">>)>>

\* the standard header without column k
WithoutColumn(k, lrows) ==
  Only({TableFile([i \in DOMAIN keys |-> StdNames[keys[i]]], keys, lrows) :
          keys \in {KeysIn(1..6 \ {k}, 1)}})

\* the standard header and a second spelling of column k
WithSecondColumn(k, lrows) ==
  TableFile(StdNames \o <<required_columns[k]>>, StdKeys \o <<k>>, lrows)

\* files of the session specification
MainRows == {Row(D1, IG, Location(1), <<"5">>),
             Row(NOT_A_DATE, IG, Location(1), N_A),
             Row(NaN, TW, Location(2), <<"-","3">>)}
MainFiles(n) ==
     {OtherFile(k) : k \in {"empty", "malformed", "undecodable"}}
  \cup {TableFile(StdNames, StdKeys, rs) : rs \in SeqsUpTo(n, MainRows)}
  \cup {WithoutColumn(k, rs) : k \in {1, 4}, rs \in {<<>>, OneRow, BadDateRow}}
  \cup {WithSecondColumn(k, rs) : k \in {1, 5}, rs \in {OneRow, BadDateRow}}

\* files that vary the header
HeaderNames(opt, st, keys) ==
  [i \in DOMAIN keys |-> IF opt[keys[i]] = "plain" THEN required_columns[keys[i]]
                          ELSE Styled(required_columns[keys[i]], st)]
HeaderFile(opt, st) ==
  Only({TableFile(HeaderNames(opt, st, keys), keys, OneRow) :
          keys \in {KeysIn({k \in 1..6 : opt[k] # "absent"}, 1)}})
HeaderFiles(pad) ==
  {HeaderFile(opt, st) : opt \in [1..6 -> {"absent", "plain", "styled"}], st \in Styles(pad)}

\* files that vary the date, platform and engagements cells
RowCells == {Row(d, p, Location(1), e) :
               d \in {D1, D2, NOT_A_DATE, NaN},
               p \in {IG, TW, N_A},
               e \in {<<"5">>, <<"-","3">>, N_A}}
RowFiles(n) ==
     {OtherFile(k) : k \in {"empty", "malformed", "undecodable"}}
  \cup {TableFile(StdNames, StdKeys, rs) : rs \in SeqsUpTo(n, RowCells)}
  \cup {WithSecondColumn(5, <<r>>) : r \in RowCells}

\* files that vary the location and engagements cells; row i names a
\* location of its own, with 1 or 3 engagements, or shares the location of
\* row 1 (or, with `gaps`, names none) with 1 engagement
TopRow(i, kind, gaps) ==
  Row(D1, IG,
      IF kind # "shared" THEN Location(i) ELSE IF gaps THEN NaN ELSE Location(1),
      IF kind = "own3" THEN <<"3">> ELSE <<"1">>)
TopFile(n, kinds, gaps) ==
  TableFile(StdNames, StdKeys, List([i \in 1..n |-> TopRow(i, kinds[i], gaps)]))

(***************************************************************************)
(* Specifications.                                                         *)
(***************************************************************************)
\* the page drawn with no file selected, and `file` now in the widget
Rendered(file) ==
  /\ uploaded_file = file
  /\ df = None
  /\ messages = <<Msg("info", "please_upload", <<>>)>>
  /\ path = <<"NoUpload">>
  /\ charts = None
  /\ first_attempt = None
  /\ others_since = FALSE

\* a session: any sequence of uploads and removals
Init == Rendered(None)
Next ==
  \/ \E f \in MainFiles(MaxMainRows) : Upload(f)
  \/ Remove
Spec == Init /\ [][Next]_vars

\* one attempt: a file has just been selected, the script runs on it
InitHeaders == \E f \in HeaderFiles(MaxPad) : Rendered(Some(f))
SpecHeaders == InitHeaders /\ [][Rerun]_vars

InitRows == \E f \in RowFiles(MaxRows) : Rendered(Some(f))
SpecRows == InitRows /\ [][Rerun]_vars

InitTop ==
  \E n \in 0..MaxTopRows :
    \E kinds \in [1..n -> {"own1", "own3", "shared"}], gaps \in BOOLEAN :
      Rendered(Some(TopFile(n, kinds, gaps)))
SpecTop == InitTop /\ [][Rerun]_vars

(***************************************************************************)
(* Properties.  What a property expects of an input is written down from   *)
(* the input itself (literal tables of the texts the files hold), not      *)
(* with the operators of the script.                                       *)
(***************************************************************************)
Last(s) == s[Len(s)]
TheFile == Get(uploaded_file)

\* the script has run on the file the widget holds
Processed == uploaded_file # None /\ Len(path) > 1

ERROR_STATES ==
  {"EmptyInputError", "MalformedTableError", "UnexpectedError", "SchemaError", "DateError"}
TERMINAL_STATES == ERROR_STATES \cup {"Ready"}
STAGES == <<"NoUpload", "Parsing", "Normalizing", "Validating", "CoercingDate", "Repairing", "Ready">>

Visited(stage) == \E i \in DOMAIN path : path[i] = stage
ShownError(id) ==
  \E i \in DOMAIN messages : messages[i].level = "error" /\ messages[i].id = id

\* every spelling of required column k that differs from it by letter case,
\* spaces for underscores and padding only
VariantNames ==
  [k \in 1..6 |-> {Styled(required_columns[k], st) : st \in Styles(MaxPad)}]

\* the required columns no header of the file spells
MissingRequired ==
  {k \in 1..6 : \A i \in DOMAIN TheFile.header : TheFile.header[i] \notin VariantNames[k]}

\* the positions of the cells in a row under the standard header
DateCell(r)       == TheFile.rows[r][1]
PlatformCell(r)   == TheFile.rows[r][2]
LocationCell(r)   == TheFile.rows[r][4]
EngagementCell(r) == TheFile.rows[r][5]

MISSING_TEXT == {<<>>, N_A}
VALID_DATES  == {D1, D2}

\* C1: the five charts are drawn only when the attempt reached Ready with a
\* data frame; after any error state there is no data frame and no chart.
C1_ChartsOnlyWhenReady ==
  /\ charts # None => (uploaded_file # None /\ Last(path) = "Ready" /\ df # None)
  /\ Last(path) \in ERROR_STATES => (df = None /\ charts = None)
  /\ Last(path) = "Ready" => (df # None /\ charts # None)

\* a successful upload that follows a failed first upload
C1_Witness ==
  /\ charts # None /\ Last(path) = "Ready"
  /\ first_attempt # None /\ Get(first_attempt).df = None
  /\ Last(Get(first_attempt).path) = "DateError"

(***************************************************************************)
(* C2                                                                      *)
(***************************************************************************)
DISPLAY_NAMES ==
  << <<"D","a","t","e">>, <<"P","l","a","t","f","o","r","m">>,
     <<"S","e","n","t","i","m","e","n","t">>, <<"L","o","c","a","t","i","o","n">>,
     <<"E","n","g","a","g","e","m","e","n","t","s">>,
     <<"M","e","d","i","a","_","t","y","p","e">> >>

\* the column lists of the schema error messages shown
ListedColumns ==
  {messages[i].columns : i \in {j \in DOMAIN messages : messages[j].id = "missing_columns"}}

DisplayNamesOf(S) ==
  Only({List([i \in DOMAIN keys |-> DISPLAY_NAMES[keys[i]]]) : keys \in {KeysIn(S, 1)}})

C3_DateAllOrNothing ==
  (Processed /\ Visited("CoercingDate")) =>
     IF \E r \in DOMAIN TheFile.rows : DateCell(r) \notin VALID_DATES
     THEN Last(path) = "DateError" /\ df = None /\ charts = None
     ELSE /\ ~Visited("DateError")
          /\ df # None => Len(Get(df).date) = Len(TheFile.rows)

(***************************************************************************)
(* C4                                                                      *)
(***************************************************************************)
ExpectedEngagement(text) ==
  IF text = <<"5">> THEN 5 ELSE IF text = <<"-","3">> THEN 0 - 3 ELSE 0

NUMERIC_TEXT == {<<"5">>, <<"-","3">>}

EngagementColumns ==
  {i \in DOMAIN TheFile.header : TheFile.header[i] \in VariantNames[5]}

C5_EmptyFileHalts ==
  (Processed /\ (TheFile.kind = "empty" \/ (TheFile.kind = "table" /\ TheFile.rows = <<>>))) =>
     /\ Last(path) = "EmptyInputError"
     /\ ShownError("empty_file")
     /\ df = None /\ charts = None

(***************************************************************************)
(* C6                                                                      *)
(***************************************************************************)
\* C6: when the header spells all six required columns, in any letter case,
\* with spaces for underscores and with padding, the schema check succeeds.
C6_AnyVariantPassesSchema ==
  (Processed /\ TheFile.kind = "table" /\ MissingRequired = {}) =>
     /\ ~Visited("SchemaError")
     /\ Visited("CoercingDate")

\* " MEDIA TYPE<tab>" among the headers
C6_Witness ==
  /\ Processed /\ MissingRequired = {} /\ Last(path) = "Ready"
  /\ \E i \in DOMAIN TheFile.header :
       TheFile.header[i] = <<" ","M","E","D","I","A"," ","T","Y","P","E","\t">>

(***************************************************************************)
(* C7                                                                      *)
(***************************************************************************)
Top5 == Get(charts).top_5_locations
Locations == {LocationCell(r) : r \in DOMAIN TheFile.rows} \ MISSING_TEXT

RECURSIVE LocationSumFrom(_, _)
LocationSumFrom(l, r) ==
  IF r > Len(TheFile.rows) THEN 0
  ELSE (IF LocationCell(r) = l THEN Get(df).engagements[r] ELSE 0) + LocationSumFrom(l, r + 1)
LocationSum(l) == LocationSumFrom(l, 1)

\* C7: top_5_locations holds min(5, number of locations) entries, one per
\* location with the sum of its engagements, in descending order of sum, and
\* no location left out has a larger sum than one that is in.
C7_Top5Locations ==
  (Processed /\ charts # None) =>
     /\ Len(Top5) = (IF Cardinality(Locations) < 5 THEN Cardinality(Locations) ELSE 5)
     /\ \A i \in DOMAIN Top5 :
          /\ Top5[i].key \in Locations
          /\ Top5[i].value = LocationSum(Top5[i].key)
     /\ \A i, j \in DOMAIN Top5 :
          i < j => (Top5[i].key # Top5[j].key /\ Top5[i].value >= Top5[j].value)
     /\ \A l \in Locations \ {Top5[i].key : i \in DOMAIN Top5} :
          \A i \in DOMAIN Top5 : Top5[i].value >= LocationSum(l)

\* six locations, the one left out with less than the fifth
C7_Witness ==
  /\ Processed /\ charts # None
  /\ Cardinality(Locations) = 6 /\ Len(Top5) = 5
  /\ Top5[1].value > Top5[5].value
  /\ \E l \in Locations : LocationSum(l) < Top5[5].value
  /\ \E r \in DOMAIN TheFile.rows : LocationCell(r) = Location(1) /\ r > 1

(***************************************************************************)
(* C8                                                                      *)
(***************************************************************************)
\* the moves of one attempt: to the next stage, or from a stage to the error
\* state it can end in
ForwardMoves ==
       {<<STAGES[i], STAGES[i + 1]>> : i \in 1..(Len(STAGES) - 1)}
  \cup {<<"Parsing", "EmptyInputError">>, <<"Parsing", "MalformedTableError">>,
        <<"Validating", "SchemaError">>, <<"CoercingDate", "DateError">>}
  \cup {<<st, "UnexpectedError">> : st \in {"Parsing", "Normalizing", "Validating",
                                            "CoercingDate", "Repairing"}}

\* C8: an attempt starts at NoUpload, only moves forward, visits no state
\* twice, ends in exactly one terminal state which is its last, and a missing
\* column wins over an unconvertible date.
C8_PipelineForward ==
  /\ path[1] = "NoUpload"
  /\ \A i \in 1..(Len(path) - 1) : <<path[i], path[i + 1]>> \in ForwardMoves
  /\ \A i, j \in DOMAIN path : i # j => path[i] # path[j]
  /\ \A i \in DOMAIN path : path[i] \in TERMINAL_STATES => i = Len(path)
  /\ uploaded_file # None => Last(path) \in TERMINAL_STATES
  /\ uploaded_file = None => path = <<"NoUpload">>
  /\ (/\ uploaded_file # None /\ TheFile.kind = "table" /\ MissingRequired # {}
      /\ \E r \in DOMAIN TheFile.rows : \E c \in DOMAIN TheFile.rows[r] :
           TheFile.rows[r][c] = NOT_A_DATE)
     => Last(path) = "SchemaError"

\* Location is missing and the date of the row is not a date
C8_Witness ==
  /\ uploaded_file # None /\ TheFile.kind = "table" /\ MissingRequired = {4}
  /\ Len(TheFile.rows) = 1 /\ TheFile.rows[1][1] = NOT_A_DATE
  /\ path = <<"NoUpload", "Parsing", "Normalizing", "Validating", "SchemaError">>

(***************************************************************************)
(* C9                                                                      *)
(***************************************************************************)
\* C9: whenever the file of the first attempt is uploaded again, whatever
\* was uploaded in between, the data frame, the charts, the stages and the
\* messages are those of the first attempt; and no data frame or chart of an
\* earlier upload is left after a failed one.
C9_OutcomeDependsOnFileOnly ==
  /\ (first_attempt # None /\ uploaded_file = Some(Get(first_attempt).file)) =>
        /\ df = Get(first_attempt).df
        /\ charts = Get(first_attempt).charts
        /\ path = Get(first_attempt).path
        /\ messages = Get(first_attempt).messages
  /\ (first_attempt # None /\ Get(first_attempt).charts # None /\ Last(path) # "Ready") =>
        (df = None /\ charts = None)

\* the valid file of the first attempt uploaded again after another input
C9_Witness ==
  /\ first_attempt # None /\ Get(first_attempt).charts # None
  /\ Len(Get(first_attempt).file.rows) = 2
  /\ uploaded_file = Some(Get(first_attempt).file)
  /\ others_since
  /\ charts = Get(first_attempt).charts

(***************************************************************************)
(* C10                                                                     *)
(***************************************************************************)
PlatformSums == Get(charts).platform_engagements
TimeSeries   == Get(charts).engagements_over_time

RECURSIVE SumValuesFrom(_, _)
SumValuesFrom(entries, i) ==
  IF i > Len(entries) THEN 0 ELSE entries[i].value + SumValuesFrom(entries, i + 1)
RECURSIVE SumFrom(_, _)
SumFrom(values, i) == IF i > Len(values) THEN 0 ELSE values[i] + SumFrom(values, i + 1)

DateNumber(text) == IF text = D1 THEN 20240311 ELSE IF text = D2 THEN 20240312 ELSE 0

\* C10: with no platform and no date missing, the platform sums and the time
\* series both add up to the total of the repaired engagements, and the time
\* series has one entry per date, in strictly ascending order of date.
C10_TotalsConserved ==
  (/\ Processed /\ charts # None
   /\ \A r \in DOMAIN TheFile.rows :
        PlatformCell(r) \notin MISSING_TEXT /\ DateCell(r) \notin MISSING_TEXT) =>
     /\ SumValuesFrom(PlatformSums, 1) = SumFrom(Get(df).engagements, 1)
     /\ SumValuesFrom(TimeSeries, 1) = SumFrom(Get(df).engagements, 1)
     /\ \A i, j \in DOMAIN TimeSeries : i < j => TimeSeries[i].key < TimeSeries[j].key
     /\ {TimeSeries[i].key : i \in DOMAIN TimeSeries}
          = {DateNumber(DateCell(r)) : r \in DOMAIN TheFile.rows}

\* two dates out of order, two platforms, a negative count
C10_Witness ==
  /\ Processed /\ charts # None /\ Len(TheFile.rows) = 2
  /\ DateCell(1) = D2 /\ DateCell(2) = D1
  /\ PlatformCell(1) = IG /\ PlatformCell(2) = TW
  /\ EngagementCell(1) = <<"5">> /\ EngagementCell(2) = <<"-","3">>
  /\ Len(TimeSeries) = 2 /\ Len(PlatformSums) = 2
  /\ SumValuesFrom(TimeSeries, 1) = 2

====
